---- MODULE Spec2Model ----
(***************************************************************************)
(* A model of solitaire.py: the Solitaire (Pontifex) stream cipher.        *)
(*                                                                         *)
(* Python values are modelled as follows.                                  *)
(*   - a list or tuple of cards is a sequence of integers; Python's        *)
(*     0-based indices are kept in the operators' interfaces and turned    *)
(*     into 1-based ones only where a sequence is read;                    *)
(*   - a string is the sequence of its characters' ordinals (ord);         *)
(*   - an optional argument is <<>> (None) or <<v>> (the value v).         *)
(***************************************************************************)
EXTENDS Integers, Sequences, FiniteSets, TLC

VARIABLES
    engine,     \* "none": not constructed, "ok": constructed, "error": __init__ raised
    keyArg,     \* the key argument given to __init__ (optional)
    passArg,    \* the passphrase argument given to __init__ (optional)
    accepted,   \* whether __init__ took the explicit key (its _valid_key answer)
    warned,     \* whether use_passphrase printed its warning
    key,        \* self.key
    deck,       \* self.deck
    call,       \* the last call made: [op, msg, of]
    out,        \* what the last call returned (a string)
    raised,     \* the exception the last call ended in, "" if none
    ks,         \* the keystream values _solitaire returned during the last call
    idxs,       \* the indices _solitaire read the deck at during the last call
    first,      \* the first call made on the engine, with its result
    ncalls,     \* how many calls were made
    prev,       \* the deck before the last deck operation
    branch,     \* the branch the last _count_cut took
    steps,      \* the deck operations made so far by a loop followed step by step
    text,       \* the argument of a function called on its own
    codes       \* what that function returned

vars == <<engine, keyArg, passArg, accepted, warned, key, deck, call, out,
          raised, ks, idxs, first, ncalls, prev, branch, steps, text, codes>>

engineVars == <<engine, keyArg, passArg, accepted, warned, key>>
callVars == <<call, out, raised, ks, idxs, first>>
textVars == <<text, codes>>
stepVars == <<branch, steps>>

----------------------------------------------------------------------------
(* Bounds of the model. *)

MaxOps == 4         \* deck operations in a row
MaxCalls == 2       \* encode/decode calls on one engine
MaxLen == 6         \* characters of an input text of _enumerate

----------------------------------------------------------------------------
(* Python's list operations. *)

None == <<>>
Some(v) == <<v>>

Min(a, b) == IF a < b THEN a ELSE b
Max(a, b) == IF a > b THEN a ELSE b

Range(s) == {s[i] : i \in 1..Len(s)}

\* s[a:b] for 0 <= a, 0 <= b: the bounds are clamped to the length.
Slice(s, a, b) == SubSeq(s, Min(a, Len(s)) + 1, Min(b, Len(s)))

\* s[a:]
SliceFrom(s, a) == Slice(s, a, Len(s))

\* s.index(v): the 0-based index of the first occurrence of v.
Index(s, v) == (CHOOSE i \in 1..Len(s) :
                   s[i] = v /\ \A j \in 1..(i - 1) : s[j] # v) - 1

\* s after s.pop(i)
Pop(s, i) == Slice(s, 0, i) \o SliceFrom(s, i + 1)

\* s after s.insert(i, v): an index past the end appends.
Insert(s, i, v) == Slice(s, 0, i) \o <<v>> \o SliceFrom(s, i)

\* list(range(1, 55))
IdentityDeck == [i \in 1..54 |-> i]

----------------------------------------------------------------------------
(* The jokers. *)

J0 == 53
J1 == 54

----------------------------------------------------------------------------
(* The deck primitives: each gives the deck after the call. *)

\* _move_card inserting the card without taking it out of its old place.
_move_card_dup(d, card, places) ==
    LET index == Index(d, card)
        moved == index + places
        new_index == IF moved > 53 THEN moved - 53 ELSE moved
    IN  Insert(d, new_index, card)

\* _move_card wrapping by the 54 cards of the deck instead of 53.
_move_card_wrap54(d, card, places) ==
    LET index == Index(d, card)
        moved == index + places
        new_index == IF moved > 53 THEN moved - 54 ELSE moved
    IN  Insert(Pop(d, index), new_index, d[index + 1])

_move_card(d, card, places) ==
    LET index == Index(d, card)
        moved == index + places
        new_index == IF moved > 53 THEN moved - 53 ELSE moved
    IN  Insert(Pop(d, index), new_index, d[index + 1])

\* _triple_cut leaving the second joker out of the middle.
_triple_cut_short(d) ==
    LET j0_index == Index(d, J0)
        j1_index == Index(d, J1)
        cut_point1 == Min(j0_index, j1_index)
        cut_point2 == Max(j0_index, j1_index)
        top == Slice(d, 0, cut_point1)
        middle == Slice(d, cut_point1, cut_point2)
        bottom == SliceFrom(d, cut_point2)
    IN  bottom \o middle \o top

_triple_cut(d) ==
    LET j0_index == Index(d, J0)
        j1_index == Index(d, J1)
        cut_point1 == Min(j0_index, j1_index)
        cut_point2 == Max(j0_index, j1_index) + 1
        top == Slice(d, 0, cut_point1)
        middle == Slice(d, cut_point1, cut_point2)
        bottom == SliceFrom(d, cut_point2)
    IN  bottom \o middle \o top

\* The cut point _count_cut uses for a removed bottom card.
cut_point_of(bottom_card, manual_cut_point) ==
    IF manual_cut_point # None THEN manual_cut_point[1]
    ELSE IF bottom_card = J1 THEN J0
    ELSE bottom_card

\* bottom_is_joker looking for J0 only.
bottom_is_joker_j0(d) == d[Len(d)] = J0

\* The test that opens _count_cut: the bottom card is a joker.
bottom_is_joker(d) == d[Len(d)] = J0 \/ d[Len(d)] = J1

\* The branch of _count_cut taken on the deck d: "return" when the bottom
\* card is a joker, else the branch that sets cut_point.
count_cut_branch(d, manual_cut_point) ==
    IF bottom_is_joker(d) THEN "return"
    ELSE IF manual_cut_point # None THEN "manual"
    ELSE IF d[Len(d)] = J1 THEN "clamp"
    ELSE "card"

\* _count_cut putting the two parts back in the order they were in.
_count_cut_uncut(d, manual_cut_point) ==
    IF bottom_is_joker(d)
    THEN d
    ELSE LET bottom_card == d[Len(d)]
             rest == Slice(d, 0, Len(d) - 1)
             cut_point == cut_point_of(bottom_card, manual_cut_point)
             top == Slice(rest, 0, cut_point)
             bottom == SliceFrom(rest, cut_point)
         IN  top \o bottom \o <<bottom_card>>

_count_cut(d, manual_cut_point) ==
    IF bottom_is_joker(d)
    THEN d
    ELSE LET bottom_card == d[Len(d)]
             rest == Slice(d, 0, Len(d) - 1)
             cut_point == cut_point_of(bottom_card, manual_cut_point)
             top == Slice(rest, 0, cut_point)
             bottom == SliceFrom(rest, cut_point)
         IN  bottom \o top \o <<bottom_card>>

----------------------------------------------------------------------------
(* The text transform. *)

\* The code _enumerate appends for one character: none for a non-letter.
char_code(num) ==
    IF 65 <= num /\ num <= 90 THEN <<num - 64>>
    ELSE IF 97 <= num /\ num <= 122 THEN <<num - 32 - 64>>
    ELSE <<>>

RECURSIVE alpha_codes(_)
\* The loop of _enumerate over the characters of the text.
alpha_codes(plain_text) ==
    IF plain_text = <<>> THEN <<>>
    ELSE char_code(Head(plain_text)) \o alpha_codes(Tail(plain_text))

\* pad_count counted on the letters kept instead of the text given.
pad_count_kept(plain_text) == 5 - (Len(alpha_codes(plain_text)) % 5)

\* How many codes _enumerate appends to a char_list that needs padding.
pad_count(plain_text) == 5 - (Len(plain_text) % 5)

_enumerate(plain_text) ==
    LET char_list == alpha_codes(plain_text)
    IN  IF (Len(char_list) % 5) # 0
        THEN char_list \o [i \in 1..pad_count(plain_text) |-> 24]
        ELSE char_list

RECURSIVE join_groups(_)
\* ' '.join(plain_text[i:i + 5] for i in range(0, len(plain_text), 5))
join_groups(plain_text) ==
    IF Len(plain_text) <= 5 THEN plain_text
    ELSE Slice(plain_text, 0, 5) \o <<32>> \o join_groups(SliceFrom(plain_text, 5))

_characterize(char_list) ==
    join_groups([i \in 1..Len(char_list) |-> char_list[i] + 64])

----------------------------------------------------------------------------
(* The modular combination. *)

\* _scramble without the fold of the keystream value.
_scramble_nofold(i, k) ==
    LET value == i + k
    IN  IF value > 26 THEN value - 26 ELSE value

_scramble(i, k) ==
    LET folded == IF k > 26 THEN k - 26 ELSE k
        value == i + folded
    IN  IF value > 26 THEN value - 26 ELSE value

_clarify(i, k) ==
    LET folded == IF k > 26 THEN k - 26 ELSE k
        value == i - folded
    IN  IF value < 1 THEN value + 26 ELSE value

----------------------------------------------------------------------------
(* The keystream generator. *)

\* The four deck steps that open _solitaire and each round of use_passphrase.
deck_steps(d) ==
    _count_cut(_triple_cut(_move_card(_move_card(d, J0, 1), J1, 2)), None)

\* top_index without the clamp of J1 to J0.
top_index_unclamped(top_card) == top_card

\* The index _solitaire reads the deck at, for the card on top.
top_index(top_card) == IF top_card = J1 THEN J0 ELSE top_card

\* Whether _solitaire starts over on the card it read.
is_joker(card) == card = J0 \/ card = J1

RECURSIVE _solitaire(_)
\* [deck: the deck after the call, key: the card returned (optional),
\*  idxs: the indices read, one per round, raised: the exception, if any]
_solitaire(d) ==
    LET stepped == deck_steps(d)
        top_card == top_index(stepped[1])
    IN  IF top_card >= Len(stepped)
        THEN [deck |-> stepped, key |-> None, idxs |-> <<top_card>>,
              raised |-> "IndexError"]
        ELSE IF is_joker(stepped[top_card + 1])
        THEN LET again == _solitaire(stepped)
             IN  [again EXCEPT !.idxs = <<top_card>> \o @]
        ELSE [deck |-> stepped, key |-> Some(stepped[top_card + 1]),
              idxs |-> <<top_card>>, raised |-> ""]

----------------------------------------------------------------------------
(* encode and decode. *)

\* reset_deck leaving the deck as the last call left it.
reset_deck_stale(k, d) == d

\* self.deck = list(self.key), the first statement of encode and of decode.
reset_deck(k, d) == k

RECURSIVE encode_loop_keyed(_, _)
\* encode_loop that also cuts the deck at each element it has scrambled.
encode_loop_keyed(st, elements) ==
    IF elements = <<>> THEN st
    ELSE LET drawn == _solitaire(st.deck)
         IN  IF drawn.raised # ""
             THEN [st EXCEPT !.deck = drawn.deck, !.idxs = @ \o drawn.idxs,
                             !.raised = drawn.raised]
             ELSE encode_loop_keyed(
                      [deck |-> _count_cut(drawn.deck, Some(Head(elements))),
                       res |-> Append(st.res, _scramble(Head(elements), drawn.key[1])),
                       ks |-> Append(st.ks, drawn.key[1]),
                       idxs |-> st.idxs \o drawn.idxs,
                       raised |-> ""],
                      Tail(elements))

RECURSIVE encode_loop(_, _)
\* The loop of encode from the state st = [deck, res, ks, idxs, raised] over
\* the elements left.
encode_loop(st, elements) ==
    IF elements = <<>> THEN st
    ELSE LET drawn == _solitaire(st.deck)
         IN  IF drawn.raised # ""
             THEN [st EXCEPT !.deck = drawn.deck, !.idxs = @ \o drawn.idxs,
                             !.raised = drawn.raised]
             ELSE encode_loop(
                      [deck |-> drawn.deck,
                       res |-> Append(st.res, _scramble(Head(elements), drawn.key[1])),
                       ks |-> Append(st.ks, drawn.key[1]),
                       idxs |-> st.idxs \o drawn.idxs,
                       raised |-> ""],
                      Tail(elements))

RECURSIVE decode_loop(_, _)
\* The loop of decode.
decode_loop(st, elements) ==
    IF elements = <<>> THEN st
    ELSE LET drawn == _solitaire(st.deck)
         IN  IF drawn.raised # ""
             THEN [st EXCEPT !.deck = drawn.deck, !.idxs = @ \o drawn.idxs,
                             !.raised = drawn.raised]
             ELSE decode_loop(
                      [deck |-> drawn.deck,
                       res |-> Append(st.res, _clarify(Head(elements), drawn.key[1])),
                       ks |-> Append(st.ks, drawn.key[1]),
                       idxs |-> st.idxs \o drawn.idxs,
                       raised |-> ""],
                      Tail(elements))

\* The state a call's loop starts in.
loop_start(d) == [deck |-> d, res |-> <<>>, ks |-> <<>>, idxs |-> <<>>, raised |-> ""]

\* What a call leaves and returns: nothing is returned when it raised.
call_result(st) ==
    [deck |-> st.deck, ks |-> st.ks, idxs |-> st.idxs, raised |-> st.raised,
     out |-> IF st.raised = "" THEN _characterize(st.res) ELSE <<>>]

\* encode(msg) on an engine with the key k and the deck d.
encode(k, d, msg) == call_result(encode_loop(loop_start(reset_deck(k, d)), _enumerate(msg)))

\* decode(enc) on an engine with the key k and the deck d.
decode(k, d, enc) == call_result(decode_loop(loop_start(reset_deck(k, d)), _enumerate(enc)))

----------------------------------------------------------------------------
(* Construction. *)

_valid_key(k) == \A i \in 1..54 : i \in Range(k)

RECURSIVE passphrase_deck_natural(_, _)
\* passphrase_deck without the second count cut, the one at the letter's code.
passphrase_deck_natural(d, passphrase) ==
    IF passphrase = <<>> THEN d
    ELSE LET cut == deck_steps(d)
         IN  IF cut = <<>> THEN cut ELSE passphrase_deck_natural(cut, Tail(passphrase))

RECURSIVE passphrase_deck(_, _)
\* The loop of use_passphrase from the deck d over the elements left.
passphrase_deck(d, passphrase) ==
    IF passphrase = <<>> THEN d
    ELSE LET cut == _count_cut(deck_steps(d), Some(Head(passphrase)))
         IN  \* The comparison has the round's deck computed before the next
             \* round starts, as the loop does; a deck is never empty.
             IF cut = <<>> THEN cut ELSE passphrase_deck(cut, Tail(passphrase))

\* Whether use_passphrase prints its warning for the enumerated passphrase.
warns(passphrase) == Len(passphrase) < 64

use_passphrase(passphrase_source) ==
    LET passphrase == _enumerate(passphrase_source)
    IN  [warned |-> warns(passphrase),
         key |-> passphrase_deck(IdentityDeck, passphrase)]

\* Whether __init__ takes the explicit key.
takes_key(key_arg) == key_arg # None /\ _valid_key(key_arg[1])

__init__(key_arg, passphrase_arg) ==
    IF takes_key(key_arg)
    THEN [engine |-> "ok", accepted |-> TRUE, warned |-> FALSE, key |-> key_arg[1]]
    ELSE IF passphrase_arg # None
    THEN LET derived == use_passphrase(passphrase_arg[1])
         IN  [engine |-> "ok", accepted |-> FALSE, warned |-> derived.warned,
              key |-> derived.key]
    ELSE [engine |-> "error", accepted |-> FALSE, warned |-> FALSE, key |-> <<>>]

----------------------------------------------------------------------------
(* The key as cards. *)

\* The table of get_cards: the name of the card i is conv[i].
conv ==
    <<"AC", "2C", "3C", "4C", "5C", "6C", "7C", "8C", "9C", "10C", "JC", "QC", "KC",
      "AD", "2D", "3D", "4D", "5D", "6D", "7D", "8D", "9D", "10D", "JD", "QD", "KD",
      "AH", "2H", "3H", "4H", "5H", "6H", "7H", "8H", "9H", "10H", "JH", "QH", "KH",
      "AS", "2S", "3S", "4S", "5S", "6S", "7S", "8S", "9S", "10S", "JS", "QS", "KS",
      "J0", "J1">>

\* get_cards() on an engine with the key k: conv[i] raises KeyError for a
\* card that is not in the table.
get_cards(k) ==
    IF \A n \in 1..Len(k) : k[n] \in 1..Len(conv)
    THEN [out |-> [n \in 1..Len(k) |-> conv[k[n]]], raised |-> ""]
    ELSE [out |-> <<>>, raised |-> "KeyError"]

----------------------------------------------------------------------------
(* Decks the deck operations start from: permutations of 1..54 with the    *)
(* jokers at the bottom, on top, next to each other and apart.             *)

\* 54, 53, ..., 1: both jokers on top.
ReversedDeck == [i \in 1..54 |-> 55 - i]

\* The identity deck cut after its first n cards.
CutDeck(n) == [i \in 1..54 |-> ((i + n - 1) % 54) + 1]

\* The key test_use_passphrase expects for the passphrase 'foo'.
FooKey == <<50, 51, 3, 4, 5, 6, 7, 1, 10, 11, 12, 52, 15, 16, 17, 18, 19,
            20, 21, 2, 24, 25, 26, 27, 28, 29, 30, 31, 32, 33, 34, 35, 36,
            37, 38, 39, 40, 8, 53, 13, 14, 22, 23, 54, 41, 42, 43, 44, 45,
            46, 47, 48, 49, 9>>

StartDecks == {IdentityDeck, ReversedDeck, CutDeck(1), CutDeck(53), FooKey}

\* The letter codes: a manual cut point is one of them.
LetterCodes == 1..26

NoCall == [op |-> "", msg |-> <<>>, of |-> <<>>]

----------------------------------------------------------------------------
(* The deck operations, called in any order on a deck.                     *)

InitDeck ==
    /\ deck \in StartDecks
    /\ prev = <<>>
    /\ engine = "none" /\ keyArg = None /\ passArg = None
    /\ accepted = FALSE /\ warned = FALSE /\ key = <<>>
    /\ call = NoCall /\ out = <<>> /\ raised = ""
    /\ ks = <<>> /\ idxs = <<>> /\ first = NoCall /\ ncalls = 0
    /\ text = <<>> /\ codes = <<>>
    /\ branch = "" /\ steps = <<>>

DeckOp(name, arg, after) ==
    /\ ncalls < MaxOps
    /\ prev' = deck
    /\ deck' = after
    /\ call' = [op |-> name, msg |-> arg, of |-> <<>>]
    /\ branch' = IF name = "_count_cut" THEN count_cut_branch(deck, arg) ELSE ""
    /\ ncalls' = ncalls + 1
    /\ UNCHANGED <<engineVars, out, raised, ks, idxs, first, textVars, steps>>

MoveJ0 == DeckOp("_move_card", <<J0, 1>>, _move_card(deck, J0, 1))

MoveJ1 == DeckOp("_move_card", <<J1, 2>>, _move_card(deck, J1, 2))

TripleCut == DeckOp("_triple_cut", <<>>, _triple_cut(deck))

CountCut == DeckOp("_count_cut", None, _count_cut(deck, None))

ManualCountCut ==
    \E c \in LetterCodes : DeckOp("_count_cut", Some(c), _count_cut(deck, Some(c)))

NextDeck == MoveJ0 \/ MoveJ1 \/ TripleCut \/ CountCut \/ ManualCountCut

SpecDeck == InitDeck /\ [][NextDeck]_vars

\* A deck of 54 cards holding every card 1..54 exactly once.
IsDeck(d) ==
    /\ Len(d) = 54
    /\ Range(d) = 1..54
    /\ Cardinality(Range(d)) = Len(d)

\* C1: from any deck that is a permutation of 1..54, after every operation
\* of any sequence of _move_card(J0,1), _move_card(J1,2), _triple_cut(),
\* _count_cut() and _count_cut(c), the deck has 54 cards and holds every
\* card 1..54 exactly once.
C1_PermutationInvariant == IsDeck(deck)

\* J1 was moved from the bottom of the deck, past the end, to the third
\* place, after at least one other operation.
C1_Witness ==
    /\ ncalls >= 2
    /\ call.op = "_move_card"
    /\ call.msg = <<J1, 2>>
    /\ prev[54] = J1
    /\ deck[3] = J1
    /\ IsDeck(deck)

----------------------------------------------------------------------------
(* The engine: construction, then encode and decode calls in any order.    *)

\* 'AAAAA'
A5 == <<65, 65, 65, 65, 65>>
\* 'AAAAA AAAAA', the message of test_encode
MsgA10 == A5 \o <<32>> \o A5
\* 'EXKYI ZSGEH', the message of test_decode
MsgEXKYI == <<69, 88, 75, 89, 73, 32, 90, 83, 71, 69, 72>>
\* 'AAAAA AAAAA AAAAA', the message of test_use_passphrase
MsgA15 == A5 \o <<32>> \o A5 \o <<32>> \o A5
\* 'TIKJJ RQZRK BBZNA', the text test_use_passphrase expects
MsgTIKJJ == <<84, 73, 75, 74, 74, 32, 82, 81, 90, 82, 75, 32, 66, 66, 90, 78, 65>>
\* 'foo'
Foo == <<102, 111, 111>>
\* 'cryptonomicon', the passphrase of test_mary_had_a_little_lamb
Cryptonomicon == <<99, 114, 121, 112, 116, 111, 110, 111, 109, 105, 99, 111, 110>>
\* 'a' * n
Letters(n) == [i \in 1..n |-> 97]

\* The messages: the tests' ones, the empty one, and short ones with
\* lower-case letters, spaces, digits and punctuation: 'abcde', 'A B', 'Hi!',
\* 'A    ' and 'q2 Zz'.
Messages ==
    {MsgA10, MsgEXKYI, MsgA15, <<>>, <<97, 98, 99, 100, 101>>, <<65, 32, 66>>,
     <<72, 105, 33>>, <<65, 32, 32, 32, 32>>, <<113, 50, 32, 90, 122>>}

\* The explicit keys: two permutations of 1..54, and sequences that are
\* none: too short, one card short, a card twice in 54, a card twice in 55,
\* and a card 55 among 55.
KeyArgs ==
    {IdentityDeck, ReversedDeck,
     <<1, 2, 3>>,
     Slice(IdentityDeck, 0, 53),
     [IdentityDeck EXCEPT ![2] = 1],
     IdentityDeck \o <<1>>,
     Insert(IdentityDeck, 3, 55)}

\* The passphrases: the tests' ones, the empty one, a short one with a
\* space, and letters only around the 64 characters the warning names.
PassArgs ==
    {Foo, Cryptonomicon, <<>>, <<97, 32>>,
     Letters(60), Letters(61), Letters(63), Letters(64), Letters(65)}

\* The arguments of __init__: a key alone, a passphrase alone, neither, and a
\* key together with the passphrase 'foo'.
ConstructArgs ==
    ({None} \cup {Some(k) : k \in KeyArgs}) \X {None, Some(Foo)}
        \cup ({None} \X {Some(p) : p \in PassArgs})

NoFirst == [op |-> "", msg |-> <<>>, out |-> <<>>, raised |-> "", ks |-> <<>>, deck |-> <<>>]

Init ==
    /\ engine = "none" /\ keyArg = None /\ passArg = None
    /\ accepted = FALSE /\ warned = FALSE /\ key = <<>>
    /\ deck = <<>> /\ prev = <<>>
    /\ call = NoCall /\ out = <<>> /\ raised = ""
    /\ ks = <<>> /\ idxs = <<>> /\ first = NoFirst /\ ncalls = 0
    /\ text = <<>> /\ codes = <<>>
    /\ branch = "" /\ steps = <<>>

\* Solitaire(key, passphrase)
Construct ==
    \E args \in ConstructArgs :
        LET made == __init__(args[1], args[2])
        IN  /\ engine = "none"
            /\ keyArg' = args[1]
            /\ passArg' = args[2]
            /\ engine' = made.engine
            /\ accepted' = made.accepted
            /\ warned' = made.warned
            /\ key' = made.key
            /\ deck' = made.key
            /\ UNCHANGED <<callVars, ncalls, prev, textVars, stepVars>>

\* The state after a call op(msg) that ended as done; of is the message whose
\* encoding msg is, when msg is the last encode's result.
Called(op, msg, of, done) ==
    /\ deck' = done.deck
    /\ out' = done.out
    /\ raised' = done.raised
    /\ ks' = done.ks
    /\ idxs' = done.idxs
    /\ call' = [op |-> op, msg |-> msg, of |-> of]
    /\ first' = IF ncalls = 0
                THEN [op |-> op, msg |-> msg, out |-> done.out, raised |-> done.raised,
                      ks |-> done.ks, deck |-> done.deck]
                ELSE first
    /\ ncalls' = ncalls + 1
    /\ UNCHANGED <<prev, textVars, stepVars>>

\* solitaire.encode(msg)
Encode ==
    \E msg \in Messages :
        /\ engine = "ok"
        /\ ncalls < MaxCalls
        /\ UNCHANGED engineVars
        /\ Called("encode", msg, None, encode(key, deck, msg))

\* solitaire.decode(enc)
Decode ==
    \E enc \in Messages :
        /\ engine = "ok"
        /\ ncalls < MaxCalls
        /\ UNCHANGED engineVars
        /\ Called("decode", enc, None, decode(key, deck, enc))

\* solitaire.decode(enc_msg) for enc_msg = solitaire.encode(msg), as in
\* test_mary_had_a_little_lamb.
DecodeEncoded ==
    /\ engine = "ok"
    /\ ncalls < MaxCalls
    /\ call.op = "encode"
    /\ raised = ""
    /\ UNCHANGED engineVars
    /\ Called("decode", out, Some(call.msg), decode(key, deck, out))

\* solitaire.get_key()
GetKey ==
    /\ engine = "ok"
    /\ ncalls < MaxCalls
    /\ UNCHANGED engineVars
    /\ Called("get_key", <<>>, None,
              [deck |-> deck, out |-> key, raised |-> "", ks |-> <<>>, idxs |-> <<>>])

\* solitaire.get_cards()
GetCards ==
    /\ engine = "ok"
    /\ ncalls < MaxCalls
    /\ UNCHANGED engineVars
    /\ Called("get_cards", <<>>, None,
              [deck |-> deck, out |-> get_cards(key).out, raised |-> get_cards(key).raised,
               ks |-> <<>>, idxs |-> <<>>])

\* The passphrases use_passphrase is called with on a built engine.
PassCalls == {Foo, Cryptonomicon}

\* UsePassphrase assigning the derived deck to self.key as well.
UsePassphraseKeyed ==
    \E source \in PassCalls :
        LET derived == use_passphrase(source)
        IN  /\ engine = "ok"
            /\ ncalls < MaxCalls
            /\ warned' = derived.warned
            /\ key' = derived.key
            /\ UNCHANGED <<engine, keyArg, passArg, accepted>>
            /\ Called("use_passphrase", source, None,
                      [deck |-> derived.key, out |-> derived.key, raised |-> "",
                       ks |-> <<>>, idxs |-> <<>>])

\* solitaire.use_passphrase(source): the deck is left in the derived order,
\* which is returned; self.key is not assigned.
UsePassphrase ==
    \E source \in PassCalls :
        LET derived == use_passphrase(source)
        IN  /\ engine = "ok"
            /\ ncalls < MaxCalls
            /\ warned' = derived.warned
            /\ UNCHANGED <<engine, keyArg, passArg, accepted, key>>
            /\ Called("use_passphrase", source, None,
                      [deck |-> derived.key, out |-> derived.key, raised |-> "",
                       ks |-> <<>>, idxs |-> <<>>])

Next ==
    Construct \/ Encode \/ Decode \/ DecodeEncoded \/ GetKey \/ GetCards \/ UsePassphrase

Spec == Init /\ [][Next]_vars

\* C2: on an engine whose key is a permutation of 1..54, for every text,
\* decode(encode(text)) is _characterize(_enumerate(text)).
C2_RoundTrip ==
    (engine = "ok" /\ IsDeck(key) /\ call.op = "decode" /\ call.of # None)
        => (raised = "" /\ out = _characterize(_enumerate(call.of[1])))

\* What op(msg) returns on an engine just built with the key k, whose deck
\* is list(k): the text, and the exception if it raised.
OnFreshEngine(k, op, msg) ==
    LET done == IF op = "encode" THEN encode(k, k, msg) ELSE decode(k, k, msg)
    IN  <<done.out, done.raised>>

\* C3: whatever calls were made before on the engine, encode(m) and decode(m)
\* return what they return on a fresh engine with the same key, and a call
\* that repeats the engine's first call returns what the first call returned.
C3_CallsIndependent ==
    (engine = "ok" /\ call.op \in {"encode", "decode"}) =>
        /\ <<out, raised>> = OnFreshEngine(key, call.op, call.msg)
        /\ (call.op = first.op /\ call.msg = first.msg)
               => (out = first.out /\ raised = first.raised)

\* The first call on an engine, made again after its first run left the deck
\* shuffled, gave a text of two groups.
C3_Witness ==
    /\ engine = "ok"
    /\ ncalls = 2
    /\ call.op = "encode"
    /\ first.op = "encode"
    /\ call.msg = first.msg
    /\ deck # key
    /\ Len(out) = 11
    /\ out = first.out

\* C4: an explicit key is taken if and only if it is a sequence of 54
\* integers that is a permutation of 1..54.
C4_ValidKeyIffPermutation ==
    (engine # "none" /\ keyArg # None) => (accepted <=> IsDeck(keyArg[1]))

\* C5: construction with an explicit key that is no permutation of 1..54
\* raises, with or without a passphrase, and so does construction with
\* neither a key nor a passphrase.
C5_BadKeyRaises ==
    engine # "none" =>
        /\ (keyArg # None /\ ~IsDeck(keyArg[1])) => engine = "error"
        /\ (keyArg = None /\ passArg = None) => engine = "error"

\* C7: on an engine whose key is a permutation of 1..54, every card
\* _solitaire returns is in 1..52 and every index it reads is in 1..53.
C7_KeystreamRange ==
    (engine = "ok" /\ IsDeck(key)) =>
        /\ raised = ""
        /\ \A i \in 1..Len(ks) : ks[i] \in 1..52
        /\ \A i \in 1..Len(idxs) : idxs[i] \in 1..53

\* A call drew ten cards or more, started over on a joker at least once and
\* read the deck at the index 53.
C7_Witness ==
    /\ engine = "ok"
    /\ IsDeck(key)
    /\ Len(ks) >= 10
    /\ Len(idxs) > Len(ks)
    /\ \E i \in 1..Len(idxs) : idxs[i] = 53

\* C8: with the explicit key [1..54], encode('AAAAA AAAAA') is 'EXKYI ZSGEH'
\* and decode('EXKYI ZSGEH') is 'AAAAA AAAAA'.
C8_KnownVectors ==
    (engine = "ok" /\ keyArg = Some(IdentityDeck)) =>
        /\ (call.op = "encode" /\ call.msg = MsgA10) => out = MsgEXKYI
        /\ (call.op = "decode" /\ call.msg = MsgEXKYI) => out = MsgA10

\* decode('EXKYI ZSGEH') was called after encode('AAAAA AAAAA') on the engine
\* with the key [1..54].
C8_Witness ==
    /\ engine = "ok"
    /\ keyArg = Some(IdentityDeck)
    /\ first.op = "encode" /\ first.msg = MsgA10 /\ first.out = MsgEXKYI
    /\ call.op = "decode" /\ call.msg = MsgEXKYI
    /\ out = MsgA10

\* C9: the engine built from the passphrase 'foo' has the key of
\* test_use_passphrase, and its encode('AAAAA AAAAA AAAAA') is
\* 'TIKJJ RQZRK BBZNA'.
C9_PassphraseVector ==
    (engine = "ok" /\ ~accepted /\ passArg = Some(Foo)) =>
        /\ key = FooKey
        /\ (call.op = "encode" /\ call.msg = MsgA15) => out = MsgTIKJJ

\* encode('AAAAA AAAAA AAAAA') was called on the engine built from 'foo'.
C9_Witness ==
    /\ engine = "ok"
    /\ keyArg = None
    /\ passArg = Some(Foo)
    /\ call.op = "encode" /\ call.msg = MsgA15
    /\ Len(out) = 17

\* C10: for every passphrase of fewer than 64 characters, the derivation
\* prints its warning, raises nothing and gives a key that is a permutation
\* of 1..54.
C10_ShortPassphraseWarns ==
    (engine # "none" /\ ~accepted /\ passArg # None /\ Len(passArg[1]) < 64) =>
        /\ engine = "ok"
        /\ warned
        /\ IsDeck(key)

----------------------------------------------------------------------------
(* _enumerate on its own, for every text of a few characters.              *)

\* ' ', '2', 'A', 'Z', 'a', 'z'
Alphabet == {32, 50, 65, 90, 97, 122}

Texts == UNION {[1..n -> Alphabet] : n \in 0..MaxLen}

InitText ==
    /\ text \in Texts
    /\ codes = <<>>
    /\ engine = "none" /\ keyArg = None /\ passArg = None
    /\ accepted = FALSE /\ warned = FALSE /\ key = <<>>
    /\ deck = <<>> /\ prev = <<>>
    /\ call = NoCall /\ out = <<>> /\ raised = ""
    /\ ks = <<>> /\ idxs = <<>> /\ first = NoFirst /\ ncalls = 0
    /\ branch = "" /\ steps = <<>>

\* self._enumerate(text)
Enumerate ==
    /\ ncalls = 0
    /\ codes' = _enumerate(text)
    /\ call' = [op |-> "_enumerate", msg |-> text, of |-> None]
    /\ ncalls' = 1
    /\ UNCHANGED <<engineVars, deck, prev, out, raised, ks, idxs, first, text, stepVars>>

NextText == Enumerate

SpecText == InitText /\ [][NextText]_vars

IsLetter(num) == (65 <= num /\ num <= 90) \/ (97 <= num /\ num <= 122)

\* The codes of the letters of a text, in order: A and a are 1, Z and z 26.
LettersOf(t) ==
    LET kept == SelectSeq(t, IsLetter)
    IN  [i \in 1..Len(kept) |-> kept[i] % 32]

\* C6: _enumerate(text) is the codes of the text's letters in order, followed
\* only by codes 24, its length is a multiple of 5, and nothing is appended
\* when the number of letters is a multiple of 5.
C6_EnumeratePadsToFive ==
    call.op = "_enumerate" =>
        LET letters == LettersOf(text)
        IN  /\ Len(codes) >= Len(letters)
            /\ SubSeq(codes, 1, Len(letters)) = letters
            /\ \A i \in (Len(letters) + 1)..Len(codes) : codes[i] = 24
            /\ Len(codes) % 5 = 0
            /\ (Len(letters) % 5 = 0 => codes = letters)

----------------------------------------------------------------------------
(* The key of a built engine. *)

\* C11: no call of encode, decode, get_key, get_cards or use_passphrase on a
\* built engine changes its key.
C11_KeyFixed == [][engine = "ok" => key' = key]_vars

\* use_passphrase was called on a built engine and left the deck in an order
\* that is not the key's, and another call followed.
C11_Witness ==
    /\ engine = "ok"
    /\ ncalls = 2
    /\ first.op = "use_passphrase"
    /\ first.deck # key
    /\ call.op \in {"encode", "get_key", "get_cards"}
    /\ IsDeck(key)

----------------------------------------------------------------------------
(* _move_card on its own, for every card of a deck.                        *)

\* self._move_card(card, places), once, on a start deck.
MoveCard ==
    \E card \in 1..54, places \in {1, 2} :
        /\ ncalls = 0
        /\ prev' = deck
        /\ deck' = _move_card(deck, card, places)
        /\ call' = [op |-> "_move_card", msg |-> <<card, places>>, of |-> <<>>]
        /\ ncalls' = 1
        /\ UNCHANGED <<engineVars, out, raised, ks, idxs, first, textVars, stepVars>>

NextMove == MoveCard

SpecMove == InitDeck /\ [][NextMove]_vars

\* The 0-based place of a card in a deck that holds it once.
PlaceOf(d, card) == (CHOOSE n \in 1..Len(d) : d[n] = card) - 1

\* The deck without the card at the 0-based place n.
Without(d, n) == [m \in 1..(Len(d) - 1) |-> IF m <= n THEN d[m] ELSE d[m + 1]]

\* C12: _move_card(card, places), places 1 or 2, leaves a card that was at
\* the index i at i + places when that is at most 53 and at i + places - 53
\* otherwise, so never on top after a wrap, and leaves the other 53 cards in
\* their order.
C12_MoveCardPlace ==
    call.op = "_move_card" =>
        LET card == call.msg[1]
            places == call.msg[2]
            i == PlaceOf(prev, card)
            target == IF i + places <= 53 THEN i + places ELSE i + places - 53
        IN  /\ Len(deck) = 54
            /\ deck[target + 1] = card
            /\ (i + places > 53 => target \in {1, 2})
            /\ Without(deck, target) = Without(prev, i)

\* A card was moved two places from the bottom of the deck and is now third.
C12_Witness ==
    /\ call.op = "_move_card"
    /\ call.msg[2] = 2
    /\ prev[54] = call.msg[1]
    /\ deck[3] = call.msg[1]
    /\ deck[1] = prev[1]

----------------------------------------------------------------------------
(* The cuts, in the sequences of deck operations of SpecDeck.              *)

\* C13: _triple_cut() gives bottom ++ middle ++ top, the middle running from
\* the first joker to the second: the card at the place p of the old deck is
\* at the place the three parts, each in its order, give it.
C13_TripleCut ==
    call.op = "_triple_cut" =>
        LET n == Len(prev)
            a == PlaceOf(prev, J0) + 1
            b == PlaceOf(prev, J1) + 1
            lo == Min(a, b)
            hi == Max(a, b)
            place(p) == IF p < lo THEN (n - lo + 1) + p
                        ELSE IF p <= hi THEN (n - hi) + (p - lo + 1)
                        ELSE p - hi
        IN  /\ Len(deck) = n
            /\ \A p \in 1..n : deck[place(p)] = prev[p]

\* A triple cut swapped a top and a bottom that both held cards, around a
\* middle with cards between the jokers.
C13_Witness ==
    /\ call.op = "_triple_cut"
    /\ ~is_joker(prev[1])
    /\ ~is_joker(prev[54])
    /\ \E p \in 2..52 : is_joker(prev[p]) /\ ~is_joker(prev[p + 1])
                          /\ \E q \in (p + 2)..53 : is_joker(prev[q])
    /\ deck[54] = prev[Min(PlaceOf(prev, J0), PlaceOf(prev, J1))]

\* C14: _count_cut never changes the bottom card; with a joker on the bottom
\* the deck is unchanged, with or without a manual cut point; otherwise, p
\* being the manual cut point if there is one and the bottom card if not, the
\* deck is rest[p:] ++ rest[:p] ++ [bottom_card].
C14_CountCut ==
    call.op = "_count_cut" =>
        LET bottom_card == prev[54]
            p == IF call.msg # None THEN call.msg[1] ELSE bottom_card
            place(q) == IF q <= p THEN (53 - p) + q ELSE q - p
        IN  /\ Len(deck) = 54
            /\ deck[54] = bottom_card
            /\ (bottom_card \in {J0, J1} => deck = prev)
            /\ (bottom_card \notin {J0, J1} => \A q \in 1..53 : deck[place(q)] = prev[q])

\* A cut at the bottom card's value and a cut at a manual cut point were both
\* made, the last one moving cards.
C14_Witness ==
    /\ call.op = "_count_cut"
    /\ ncalls >= 2
    /\ call.msg # None
    /\ ~is_joker(prev[54])
    /\ call.msg[1] # prev[54]
    /\ deck[53] = prev[call.msg[1]]
    /\ deck # prev

\* C19: no call of _count_cut, with or without a manual cut point, takes the
\* branch that clamps a removed J1 to 53: the card removed is in 1..52.
C19_ClampNeverTaken ==
    call.op = "_count_cut" =>
        /\ branch # "clamp"
        /\ (branch # "return" => prev[54] \in 1..52)

\* _count_cut() was called without a manual cut point on a deck with J1 on
\* the bottom, after other operations, and returned at once.
C19_Witness ==
    /\ call.op = "_count_cut"
    /\ call.msg = None
    /\ ncalls >= 2
    /\ prev[54] = J1
    /\ branch = "return"

----------------------------------------------------------------------------
(* use_passphrase followed statement by statement.                          *)

\* The deck the engine holds when use_passphrase is called: none yet (the
\* call from __init__) or the deck a built engine has.
InitDerive ==
    /\ text \in PassArgs
    /\ deck \in {<<>>, ReversedDeck}
    /\ codes = <<>> /\ prev = <<>>
    /\ engine = "none" /\ keyArg = None /\ passArg = None
    /\ accepted = FALSE /\ warned = FALSE /\ key = <<>>
    /\ call = NoCall /\ out = <<>> /\ raised = ""
    /\ ks = <<>> /\ idxs = <<>> /\ first = NoFirst /\ ncalls = 0
    /\ branch = "" /\ steps = <<>>

\* The passphrase element the loop is at, and the statement of the loop body
\* it is at (0: the first one), after the deck operations made so far.
element_at == codes[(Len(steps) \div 5) + 1]
statement_at == Len(steps) % 5

\* The loop body is entered: an element is left.
in_loop == call.op = "use_passphrase" /\ Len(steps) < 5 * Len(codes)

\* The statements of use_passphrase before its loop.
DeriveStart ==
    /\ call.op = ""
    /\ codes' = _enumerate(text)
    /\ warned' = warns(_enumerate(text))
    /\ deck' = IdentityDeck
    /\ call' = [op |-> "use_passphrase", msg |-> text, of |-> None]
    /\ UNCHANGED <<engine, keyArg, passArg, accepted, key, out, raised, ks, idxs,
                   first, ncalls, prev, text, stepVars>>

\* One statement of the loop body: the deck operation name(arg).
DeriveStep(at, name, arg, after) ==
    /\ in_loop
    /\ statement_at = at
    /\ prev' = deck
    /\ deck' = after
    /\ steps' = Append(steps, [op |-> name, arg |-> arg])
    /\ branch' = IF name = "_count_cut" THEN count_cut_branch(deck, arg) ELSE branch
    /\ UNCHANGED <<engineVars, callVars, ncalls, textVars>>

\* self._move_card(self.J0, 1)
DeriveMoveJ0 == DeriveStep(0, "_move_card", <<J0, 1>>, _move_card(deck, J0, 1))

\* self._move_card(self.J1, 2)
DeriveMoveJ1 == DeriveStep(1, "_move_card", <<J1, 2>>, _move_card(deck, J1, 2))

\* self._triple_cut()
DeriveTripleCut == DeriveStep(2, "_triple_cut", <<>>, _triple_cut(deck))

\* self._count_cut()
DeriveCountCut == DeriveStep(3, "_count_cut", None, _count_cut(deck, None))

\* DeriveElementCut without the element as the cut point.
DeriveElementCutNatural == DeriveStep(4, "_count_cut", None, _count_cut(deck, None))

\* self._count_cut(element)
DeriveElementCut ==
    DeriveStep(4, "_count_cut", Some(element_at), _count_cut(deck, Some(element_at)))

\* return tuple(self.deck)
DeriveReturn ==
    /\ call.op = "use_passphrase"
    /\ ~in_loop
    /\ out' = deck
    /\ call' = [call EXCEPT !.op = "returned"]
    /\ UNCHANGED <<engineVars, deck, raised, ks, idxs, first, ncalls, prev,
                   textVars, stepVars>>

NextDerive ==
    \/ DeriveStart
    \/ DeriveMoveJ0
    \/ DeriveMoveJ1
    \/ DeriveTripleCut
    \/ DeriveCountCut
    \/ DeriveElementCut
    \/ DeriveReturn

SpecDerive == InitDerive /\ [][NextDerive]_vars

\* The deck operation the claim puts at the place n of the derivation over
\* the elements cs.
DerivationStep(cs, n) ==
    CASE n % 5 = 1 -> [op |-> "_move_card", arg |-> <<53, 1>>]
      [] n % 5 = 2 -> [op |-> "_move_card", arg |-> <<54, 2>>]
      [] n % 5 = 3 -> [op |-> "_triple_cut", arg |-> <<>>]
      [] n % 5 = 4 -> [op |-> "_count_cut", arg |-> <<>>]
      [] n % 5 = 0 -> [op |-> "_count_cut", arg |-> <<cs[n \div 5]>>]

\* C15: the derivation starts from [1..54]; the deck operations it makes are,
\* for each element c of _enumerate(passphrase) in order, _move_card(J0, 1),
\* _move_card(J1, 2), _triple_cut(), _count_cut(), _count_cut(c), and nothing
\* else; it returns the deck after the last one, having made twice as many
\* count cuts as there are elements.
C15_DerivationSteps ==
    /\ (call.op \in {"use_passphrase", "returned"}) =>
           /\ codes = _enumerate(text)
           /\ (steps = <<>> => deck = IdentityDeck)
           /\ Len(steps) <= 5 * Len(codes)
           /\ \A n \in 1..Len(steps) : steps[n] = DerivationStep(codes, n)
    /\ call.op = "returned" =>
           /\ Len(steps) = 5 * Len(codes)
           /\ Cardinality({n \in 1..Len(steps) : steps[n].op = "_count_cut"})
                  = 2 * Len(codes)
           /\ out = deck
           /\ out = use_passphrase(text).key

\* The derivation from 'cryptonomicon' returned after its 15 rounds, the last
\* one cutting at the padding code 24.
C15_Witness ==
    /\ call.op = "returned"
    /\ text = Cryptonomicon
    /\ Len(steps) = 75
    /\ steps[75].arg = <<24>>
    /\ branch = "manual"
    /\ IsDeck(out)

----------------------------------------------------------------------------
----------------------------------------------------------------------------
(* _scramble and _clarify alone, on a letter code and a keystream value.    *)

\* The values _solitaire returns (C7).
KeystreamValues == 1..52

\* text holds the arguments <<i, key>>.
InitCombine ==
    /\ text \in LetterCodes \X KeystreamValues
    /\ codes = <<>>
    /\ engine = "none" /\ keyArg = None /\ passArg = None
    /\ accepted = FALSE /\ warned = FALSE /\ key = <<>>
    /\ deck = <<>> /\ prev = <<>>
    /\ call = NoCall /\ out = <<>> /\ raised = ""
    /\ ks = <<>> /\ idxs = <<>> /\ first = NoFirst /\ ncalls = 0
    /\ branch = "" /\ steps = <<>>

\* A call of `name` on the arguments, then a call of `inverse` on its result
\* with the same keystream value: codes holds the two results.
Combine(name, value, back) ==
    /\ ncalls = 0
    /\ codes' = <<value, back>>
    /\ call' = [op |-> name, msg |-> text, of |-> None]
    /\ ncalls' = 1
    /\ UNCHANGED <<engineVars, deck, prev, out, raised, ks, idxs, first, text, stepVars>>

Scramble ==
    Combine("_scramble", _scramble(text[1], text[2]),
            _clarify(_scramble(text[1], text[2]), text[2]))

Clarify ==
    Combine("_clarify", _clarify(text[1], text[2]),
            _scramble(_clarify(text[1], text[2]), text[2]))

NextCombine == Scramble \/ Clarify

SpecCombine == InitCombine /\ [][NextCombine]_vars

\* The representative in 1..26 of n modulo 26.
Rep26(n) == ((n - 1) % 26) + 1

\* C18: for i in 1..26 and a keystream value in 1..52, _scramble and _clarify
\* give a value in 1..26, which is i plus (minus) the keystream value modulo
\* 26 over the representatives 1..26, and each undoes the other under the
\* same keystream value.
C18_CombineMod26 ==
    /\ call.op = "_scramble" =>
           /\ codes[1] \in 1..26
           /\ codes[1] = Rep26(text[1] + text[2])
           /\ codes[2] = text[1]
    /\ call.op = "_clarify" =>
           /\ codes[1] \in 1..26
           /\ codes[1] = Rep26(text[1] - text[2])
           /\ codes[2] = text[1]

\* Z (26) scrambled with the keystream value 52 folds twice, to Z.
C18_Witness ==
    /\ call.op = "_scramble"
    /\ text = <<26, 52>>
    /\ codes = <<26, 26>>

----------------------------------------------------------------------------
\* C20: on one engine, whatever the two inputs, the keystream values drawn by
\* an encode or decode call and those drawn by the engine's first encode or
\* decode call agree draw by draw as far as both go, and two calls that
\* ended after the same number of draws leave the same working deck.
C20_KeystreamIgnoresMessage ==
    (/\ engine = "ok"
     /\ call.op \in {"encode", "decode"}
     /\ first.op \in {"encode", "decode"}) =>
        /\ \A n \in 1..Min(Len(ks), Len(first.ks)) : ks[n] = first.ks[n]
        /\ (raised = "" /\ first.raised = "" /\ Len(ks) = Len(first.ks)) =>
               deck = first.deck

\* An encode, then a decode of another text of the same length: five draws
\* each, the same five values, the same deck left.
C20_Witness ==
    /\ engine = "ok"
    /\ ncalls = 2
    /\ first.op = "encode" /\ call.op = "decode"
    /\ first.msg # call.msg
    /\ _enumerate(first.msg) # _enumerate(call.msg)
    /\ raised = "" /\ first.raised = ""
    /\ Len(ks) = 5 /\ ks = first.ks
    /\ IsDeck(deck) /\ deck = first.deck /\ deck # key

----------------------------------------------------------------------------
(* _solitaire followed statement by statement: a retry on a joker is a new  *)
(* round of the same statements.                                            *)

MaxDraws == 40

\* The working deck at the first draw is the key: keys __init__ accepts, two
\* of them derived from a passphrase, one of them with a card 55 in it.
DrawKeys ==
    StartDecks \cup {use_passphrase(Cryptonomicon).key, Insert(IdentityDeck, 3, 55)}

InitDraw ==
    /\ deck \in DrawKeys
    /\ key = deck
    /\ prev = <<>>
    /\ engine = "ok" /\ keyArg = None /\ passArg = None
    /\ accepted = TRUE /\ warned = FALSE
    /\ call = NoCall /\ out = <<>> /\ raised = ""
    /\ ks = <<>> /\ idxs = <<>> /\ first = NoFirst /\ ncalls = 0
    /\ text = <<>> /\ codes = <<>>
    /\ branch = "" /\ steps = <<>>

in_solitaire == call.op = "_solitaire"

\* The index the round reads the deck at, and whether the deck has it.
read_index == top_index(deck[1])
read_in_range == read_index < Len(deck)

\* key = self._solitaire(), called from the loop of encode or decode.
SolitaireCall ==
    /\ call.op \in {"", "returned"}
    /\ ncalls < MaxDraws
    /\ call' = [op |-> "_solitaire", msg |-> <<>>, of |-> None]
    /\ ncalls' = ncalls + 1
    /\ out' = <<>>
    /\ idxs' = <<>>
    /\ steps' = <<>>
    /\ UNCHANGED <<engineVars, deck, prev, raised, ks, first, textVars, branch>>

\* One of the four deck statements of a round: the one after `at` others.
SolitaireStep(at, name, arg, after) ==
    /\ in_solitaire
    /\ Len(steps) = at
    /\ prev' = deck
    /\ deck' = after
    /\ steps' = Append(steps, [op |-> name, arg |-> arg])
    /\ branch' = IF name = "_count_cut" THEN count_cut_branch(deck, arg) ELSE branch
    /\ UNCHANGED <<engineVars, callVars, ncalls, textVars>>

\* self._move_card(self.J0, 1)
SolitaireMoveJ0 == SolitaireStep(0, "_move_card", <<J0, 1>>, _move_card(deck, J0, 1))

\* self._move_card(self.J1, 2)
SolitaireMoveJ1 == SolitaireStep(1, "_move_card", <<J1, 2>>, _move_card(deck, J1, 2))

\* self._triple_cut()
SolitaireTripleCut == SolitaireStep(2, "_triple_cut", <<>>, _triple_cut(deck))

\* self._count_cut()
SolitaireCountCut == SolitaireStep(3, "_count_cut", None, _count_cut(deck, None))

\* The four deck statements are done: the round reads the card.
at_read == in_solitaire /\ Len(steps) = 4

\* SolitaireRetry reading the same deck again instead of playing a new round.
SolitaireRetryStuck ==
    /\ at_read
    /\ read_in_range
    /\ is_joker(deck[read_index + 1])
    /\ UNCHANGED vars

\* The card read is a joker: return self._solitaire(), a new round on the
\* deck as it is.
SolitaireRetry ==
    /\ at_read
    /\ read_in_range
    /\ is_joker(deck[read_index + 1])
    /\ idxs' = Append(idxs, read_index)
    /\ steps' = <<>>
    /\ UNCHANGED <<engineVars, deck, prev, call, out, raised, ks, first, ncalls,
                   textVars, branch>>

\* The card read is no joker: return key.
SolitaireReturn ==
    /\ at_read
    /\ read_in_range
    /\ ~is_joker(deck[read_index + 1])
    /\ idxs' = Append(idxs, read_index)
    /\ out' = <<deck[read_index + 1]>>
    /\ ks' = Append(ks, deck[read_index + 1])
    /\ call' = [call EXCEPT !.op = "returned"]
    /\ UNCHANGED <<engineVars, deck, prev, raised, first, ncalls, textVars, stepVars>>

\* self.deck[top_card] is out of range: the call, and its caller, end.
SolitaireRaise ==
    /\ at_read
    /\ ~read_in_range
    /\ idxs' = Append(idxs, read_index)
    /\ raised' = "IndexError"
    /\ call' = [call EXCEPT !.op = "raised"]
    /\ UNCHANGED <<engineVars, deck, prev, out, ks, first, ncalls, textVars, stepVars>>

\* The statements of a call under way.
SolitaireRun ==
    \/ SolitaireMoveJ0
    \/ SolitaireMoveJ1
    \/ SolitaireTripleCut
    \/ SolitaireCountCut
    \/ SolitaireRetry
    \/ SolitaireReturn
    \/ SolitaireRaise

NextDraw == SolitaireCall \/ SolitaireRun

\* A call that has started runs on: the interpreter executes its next
\* statement, whichever it is. The caller need not call again.
SpecDraw == InitDraw /\ [][NextDraw]_vars /\ WF_vars(SolitaireRun)

\* C16: a call of _solitaire on a working deck that is a permutation of
\* 1..54 returns, after finitely many retries, a card that is no joker.
C16_SolitaireTerminates ==
    (in_solitaire /\ IsDeck(deck)) ~>
        (call.op = "returned" /\ IsDeck(deck) /\ out # <<>> /\ ~is_joker(out[1]))

\* A call on a permutation of 1..54 has returned a card after a retry: it
\* read the deck twice, four deck statements before each.
C16_Witness ==
    /\ call.op = "returned"
    /\ IsDeck(key) /\ IsDeck(deck)
    /\ Len(idxs) = 2
    /\ Len(steps) = 4
    /\ out # <<>> /\ out[1] \in 1..52

====
